---- MODULE Spec2Model ----
(***************************************************************************)
(* static_vector<T, Capacity> (include/static_vector.h): a fixed-capacity  *)
(* sequence over inline raw storage, with placement construction and       *)
(* explicit destruction of its elements.                                   *)
(*                                                                         *)
(* The model tracks every element object by a fresh identity, so that the  *)
(* lifetime of each object (constructed, moved-from, destroyed) can be     *)
(* followed through copy, move, insertion, removal and destruction.        *)
(***************************************************************************)
EXTENDS Integers, Sequences, FiniteSets

\* ------------------------------------------------------------------ bounds
\* The template parameter Capacity of the container under analysis.
Capacity == 2
\* Total number of element objects constructed in one behaviour.
MaxObjs == 4

\* The client program declares two container variables: every member function
\* involves at most two containers (*this and other).
Vecs == {"a", "b"}
\* No container: the `other` operand of a unary member function.
NoVec == "-"
Slots == 0..(Capacity - 1)
\* The element values the client stores; two suffice to tell slots apart.
Values == {1, 2}
Ids == 1..MaxObjs

\* The value a T holds after being the source of T(T&&): valid, unspecified.
MovedFromVal == 0

\* StaticVectorErrorCode; "void" stands for operations that return no code.
StaticVectorErrorCode ==
    {"NoError", "OutOfSpace", "OutOfRange", "Empty", "CannotDefaultConstruct"}

\* A slot of storage_ holding no object: uninitialized bytes, or the bytes of
\* an object whose destructor has run.
Raw == [id |-> 0, val |-> 0, moved |-> FALSE]

VARIABLES
    alive,      \* alive[c]: container c is between its constructor and destructor
    size_,      \* size_[c]: the member size_
    storage_,   \* storage_[c][i]: the object (if any) living in slot i of storage_
    nextId,     \* identity the next constructed element object receives
    dtorCount,  \* dtorCount[id]: how many times ~T() ran on object id
    log,        \* element constructions/destructions of the last operation, in order
    op,         \* the last operation: its name, target and other operand
    ret,        \* the code the last operation returned
    pushes,     \* pushes[c]: insertions attempted on c since c was last empty
    obs         \* what the last access or traversal gave its caller

vars == <<alive, size_, storage_, nextId, dtorCount, log, op, ret, pushes, obs>>

\* The part of the state the member functions read and write.
Mem == [size_ |-> size_, storage_ |-> storage_, nextId |-> nextId,
        dtorCount |-> dtorCount, log |-> <<>>]

\* ------------------------------------------------------- element lifetime
\* ::new (data() + i) T(...): a new object with value v starts to live in slot
\* i of c.  `over` records the undestroyed object (0: none) it is built over.
Construct(m, c, i, v, how) ==
    [m EXCEPT !.storage_[c][i] = [id |-> m.nextId, val |-> v, moved |-> FALSE],
              !.nextId = @ + 1,
              !.log = Append(@, [ev |-> how, c |-> c, slot |-> i,
                                 id |-> m.nextId, count |-> m.size_[c],
                                 over |-> m.storage_[c][i].id])]

\* data()[i].~T(): the destructor runs on the object in slot i of c.
Destroy(m, c, i) ==
    LET e == m.storage_[c][i] IN
    [m EXCEPT !.storage_[c][i] = Raw,
              !.dtorCount = IF e.id \in Ids THEN [@ EXCEPT ![e.id] = @ + 1] ELSE @,
              !.log = Append(@, [ev |-> "dtor", c |-> c, slot |-> i,
                                 id |-> e.id, count |-> m.size_[c],
                                 over |-> 0])]

\* T(T&&) applied to the object in slot j of o, building slot i of c: the new
\* object takes the value, the source object stays constructed, moved-from.
MoveConstruct(m, c, i, o, j) ==
    LET m1 == Construct(m, c, i, m.storage_[o][j].val, "move") IN
    [m1 EXCEPT !.storage_[o][j].val = MovedFromVal,
               !.storage_[o][j].moved = TRUE]

\* ------------------------------------------------------- member functions
\* Each member function maps the memory m to the memory after the call; the
\* fallible ones return [m |-> memory, ret |-> code].

RECURSIVE clear_loop_skip_last(_, _, _)
\* Mutant of clear_loop: the loop bound is size_ - 1, the last element is
\* never destroyed.
clear_loop_skip_last(m, c, i) ==
    IF i < m.size_[c] - 1
    THEN clear_loop_skip_last(Destroy(m, c, i), c, i + 1)
    ELSE m

RECURSIVE clear_loop(_, _, _)
\* for (size_type i = 0; i < size_; ++i) data()[i].~T();
clear_loop(m, c, i) ==
    IF i < m.size_[c] THEN clear_loop(Destroy(m, c, i), c, i + 1) ELSE m

\* Mutant of clear: size_ is not reset after the destruction loop.
clear_keeps_size(m, c) == clear_loop(m, c, 0)

\* clear(): destroy [0, size_), then size_ = 0.
clear(m, c) == [clear_loop(m, c, 0) EXCEPT !.size_[c] = 0]

RECURSIVE uninitialized_copy_n_first(_, _, _, _, _)
\* Mutant of uninitialized_copy_n: the source iterator is never advanced.
uninitialized_copy_n_first(m, o, n, c, i) ==
    IF i < n
    THEN uninitialized_copy_n_first(Construct(m, c, i, m.storage_[o][0].val, "copy"),
                                    o, n, c, i + 1)
    ELSE m

RECURSIVE uninitialized_copy_n(_, _, _, _, _)
\* std::uninitialized_copy_n(other.begin(), n, data()), from index i on.
uninitialized_copy_n(m, o, n, c, i) ==
    IF i < n
    THEN uninitialized_copy_n(Construct(m, c, i, m.storage_[o][i].val, "copy"),
                              o, n, c, i + 1)
    ELSE m

RECURSIVE uninitialized_move_n(_, _, _, _, _)
\* std::uninitialized_move_n(other.begin(), n, data()), from index i on.
uninitialized_move_n(m, o, n, c, i) ==
    IF i < n
    THEN uninitialized_move_n(MoveConstruct(m, c, i, o, i), o, n, c, i + 1)
    ELSE m

\* static_vector(): size_(0), storage_ left as it is.
default_ctor(m, c) == [m EXCEPT !.size_[c] = 0]

\* static_vector(const static_vector& other)
copy_ctor(m, c, o) ==
    LET m1 == [m EXCEPT !.size_[c] = m.size_[o]] IN
    uninitialized_copy_n(m1, o, m1.size_[c], c, 0)

\* Mutant of move_ctor: other.size_ is not reset.
move_ctor_keeps_size(m, c, o) ==
    LET m1 == [m EXCEPT !.size_[c] = m.size_[o]] IN
    uninitialized_move_n(m1, o, m1.size_[c], c, 0)

\* static_vector(static_vector&& other)
move_ctor(m, c, o) ==
    LET m1 == [m EXCEPT !.size_[c] = m.size_[o]]
        m2 == uninitialized_move_n(m1, o, m1.size_[c], c, 0)
    IN  [m2 EXCEPT !.size_[o] = 0]

\* Mutant of copy_assign: the test this != &other is missing.
copy_assign_no_self_check(m, c, o) ==
    LET m1 == clear(m, c)
        m2 == [m1 EXCEPT !.size_[c] = m1.size_[o]]
    IN  uninitialized_copy_n(m2, o, m2.size_[c], c, 0)

\* operator=(const static_vector& other)
copy_assign(m, c, o) ==
    IF c # o
    THEN LET m1 == clear(m, c)
             m2 == [m1 EXCEPT !.size_[c] = m1.size_[o]]
         IN  uninitialized_copy_n(m2, o, m2.size_[c], c, 0)
    ELSE m

\* Mutant of move_assign: the destination is not cleared first.
move_assign_no_clear(m, c, o) ==
    IF c # o
    THEN LET m2 == [m EXCEPT !.size_[c] = m.size_[o]]
             m3 == uninitialized_move_n(m2, o, m2.size_[c], c, 0)
         IN  clear(m3, o)
    ELSE m

\* operator=(static_vector&& other)
move_assign(m, c, o) ==
    IF c # o
    THEN LET m1 == clear(m, c)
             m2 == [m1 EXCEPT !.size_[c] = m1.size_[o]]
             m3 == uninitialized_move_n(m2, o, m2.size_[c], c, 0)
         IN  clear(m3, o)
    ELSE m

\* ~static_vector(): clear().
dtor(m, c) == clear(m, c)

\* Mutant of IsFull: the capacity check is off by one.
IsFull_off_by_one(m, c) == m.size_[c] >= Capacity - 1

\* if (size_ >= Capacity) return OutOfSpace;
IsFull(m, c) == m.size_[c] >= Capacity

\* emplace_back(Args&&... args)
emplace_back(m, c, v) ==
    IF IsFull(m, c)
    THEN [m |-> m, ret |-> "OutOfSpace"]
    ELSE [m |-> [Construct(m, c, m.size_[c], v, "emplace") EXCEPT !.size_[c] = @ + 1],
          ret |-> "NoError"]

\* Mutant of push_back_copy: the element is constructed at data(), not at
\* data() + size_.
push_back_copy_at_front(m, c, v) ==
    IF IsFull(m, c)
    THEN [m |-> m, ret |-> "OutOfSpace"]
    ELSE [m |-> [Construct(m, c, 0, v, "copy") EXCEPT !.size_[c] = @ + 1],
          ret |-> "NoError"]

\* push_back(const T& value)
push_back_copy(m, c, v) ==
    IF IsFull(m, c)
    THEN [m |-> m, ret |-> "OutOfSpace"]
    ELSE [m |-> [Construct(m, c, m.size_[c], v, "copy") EXCEPT !.size_[c] = @ + 1],
          ret |-> "NoError"]

\* Mutant of push_back_move: the element is constructed before the capacity
\* check, so a full container has its last slot overwritten.
push_back_move_construct_first(m, c, v) ==
    IF m.size_[c] >= Capacity
    THEN [m |-> Construct(m, c, Capacity - 1, v, "move"), ret |-> "OutOfSpace"]
    ELSE [m |-> [Construct(m, c, m.size_[c], v, "move") EXCEPT !.size_[c] = @ + 1],
          ret |-> "NoError"]

\* push_back(T&& value)
push_back_move(m, c, v) ==
    IF IsFull(m, c)
    THEN [m |-> m, ret |-> "OutOfSpace"]
    ELSE [m |-> [Construct(m, c, m.size_[c], v, "move") EXCEPT !.size_[c] = @ + 1],
          ret |-> "NoError"]

\* Mutant of pop_back: an empty container is reported with the code OutOfRange.
pop_back_out_of_range(m, c) ==
    IF m.size_[c] = 0
    THEN [m |-> m, ret |-> "OutOfRange"]
    ELSE LET m1 == [m EXCEPT !.size_[c] = @ - 1] IN
         [m |-> Destroy(m1, c, m1.size_[c]), ret |-> "NoError"]

\* Mutant of pop_back: size_ is decremented, ~T() is never run.
pop_back_no_destroy(m, c) ==
    IF m.size_[c] = 0
    THEN [m |-> m, ret |-> "Empty"]
    ELSE [m |-> [m EXCEPT !.size_[c] = @ - 1], ret |-> "NoError"]

\* Mutant of pop_back: ~T() runs on data()[size_ - 1] before size_ is
\* decremented.
pop_back_destroy_first(m, c) ==
    IF m.size_[c] = 0
    THEN [m |-> m, ret |-> "Empty"]
    ELSE LET m1 == Destroy(m, c, m.size_[c] - 1) IN
         [m |-> [m1 EXCEPT !.size_[c] = @ - 1], ret |-> "NoError"]

\* Mutant of pop_back: an empty container reports success.
pop_back_empty_ok(m, c) ==
    IF m.size_[c] = 0
    THEN [m |-> m, ret |-> "NoError"]
    ELSE LET m1 == [m EXCEPT !.size_[c] = @ - 1] IN
         [m |-> Destroy(m1, c, m1.size_[c]), ret |-> "NoError"]

\* pop_back(): --size_; data()[size_].~T();
pop_back(m, c) ==
    IF m.size_[c] = 0
    THEN [m |-> m, ret |-> "Empty"]
    ELSE LET m1 == [m EXCEPT !.size_[c] = @ - 1] IN
         [m |-> Destroy(m1, c, m1.size_[c]), ret |-> "NoError"]

\* operator[](pos) used as an lvalue, vec[pos] = v: T's assignment gives the
\* object in slot pos the value v.
subscript_assign(m, c, pos, v) ==
    [m EXCEPT !.storage_[c][pos].val = v, !.storage_[c][pos].moved = FALSE]

\* empty(), size(), capacity()
empty(c) == size_[c] = 0
size(c) == size_[c]
\* Mutant of capacity: it returns the member size_ instead of Capacity.
capacity_returns_size(c) == size_[c]
capacity(c) == Capacity

\* --------------------------------------------------------------- access
\* A T* into the storage of container c: data() + slot.
Ptr(c, slot) == [c |-> c, slot |-> slot]
nullptr == [c |-> NoVec, slot |-> 0]

\* *p: the object the pointer p refers to.
Deref(p) == storage_[p.c][p.slot]

\* operator[](pos): data()[pos], unchecked.
subscript(c, pos) == Ptr(c, pos)

\* Mutant of at_if: the bound test is pos <= size_.
at_if_inclusive(c, pos) == IF pos <= size_[c] THEN Ptr(c, pos) ELSE nullptr

\* at_if(pos): (pos < size_) ? &data()[pos] : nullptr
at_if(c, pos) == IF pos < size_[c] THEN Ptr(c, pos) ELSE nullptr

\* front_if(): size_ > 0 ? &data()[0] : nullptr
front_if(c) == IF size_[c] > 0 THEN Ptr(c, 0) ELSE nullptr

\* back_if(): size_ > 0 ? &data()[size_ - 1] : nullptr
back_if(c) == IF size_[c] > 0 THEN Ptr(c, size_[c] - 1) ELSE nullptr

\* ------------------------------------------------------------ iteration
\* begin(): data()
begin(c) == Ptr(c, 0)

\* Mutant of end: data() + Capacity, the end of the storage.
end_of_storage(c) == Ptr(c, Capacity)

\* end(): data() + size_
end(c) == Ptr(c, size_[c])

\* std::reverse_iterator<iterator>(it): base() == it, *r == *(base() - 1),
\* ++r moves base() one element down.
reverse_iterator(it) == [base |-> it]
reverse_deref(r) == Ptr(r.base.c, r.base.slot - 1)
reverse_next(r) == [base |-> Ptr(r.base.c, r.base.slot - 1)]

\* rbegin(): reverse_iterator(end()); rend(): reverse_iterator(begin())
rbegin(c) == reverse_iterator(end(c))
rend(c) == reverse_iterator(begin(c))

\* A traversal gives up after this many increments.
MaxSteps == Capacity + 2

RECURSIVE forward_walk(_, _, _)
\* for (it = first; it != last; ++it) visit *it: the slots visited, in order.
forward_walk(it, last, steps) ==
    IF it = last \/ steps = 0
    THEN <<>>
    ELSE <<it.slot>> \o forward_walk(Ptr(it.c, it.slot + 1), last, steps - 1)

RECURSIVE reverse_walk(_, _, _)
\* for (r = first; r != last; ++r) visit *r: the slots visited, in order.
reverse_walk(r, last, steps) ==
    IF r = last \/ steps = 0
    THEN <<>>
    ELSE <<reverse_deref(r).slot>> \o reverse_walk(reverse_next(r), last, steps - 1)

\* ------------------------------------------------------------ the program
InsertNames == {"emplace_back", "push_back_copy", "push_back_move"}
Saturated == Capacity + 2

\* pushes after an operation named name on c (and o) left the sizes as sz.
NextPushes(name, c, o, sz) ==
    [x \in Vecs |->
        IF x = c /\ name \in InsertNames
        THEN IF pushes[x] >= Capacity + 1 THEN Saturated ELSE pushes[x] + 1
        ELSE IF x = c \/ x = o
             THEN IF sz[x] = 0 THEN 0 ELSE Saturated
             ELSE pushes[x]]

\* Nothing observed: the last operation was no access and no traversal.
NoObs == [arg |-> 0, ptr |-> nullptr, fwd |-> <<>>, rev |-> <<>>]

\* The operation named name took the memory to m and returned r.
Commit(m, r, name, c, o) ==
    /\ size_' = m.size_
    /\ storage_' = m.storage_
    /\ nextId' = m.nextId
    /\ dtorCount' = m.dtorCount
    /\ log' = m.log
    /\ ret' = r
    /\ op' = [name |-> name, c |-> c, o |-> o]
    /\ pushes' = NextPushes(name, c, o, m.size_)
    /\ obs' = NoObs

\* There are identities left for n more element objects.
Room(n) == nextId + n - 1 <= MaxObjs

Init ==
    /\ alive = [c \in Vecs |-> c = "a"]
    /\ size_ = [c \in Vecs |-> 0]
    /\ storage_ = [c \in Vecs |-> [i \in Slots |-> Raw]]
    /\ nextId = 1
    /\ dtorCount = [id \in Ids |-> 0]
    /\ log = <<>>
    /\ op = [name |-> "default_ctor", c |-> "a", o |-> NoVec]
    /\ ret = "void"
    /\ pushes = [c \in Vecs |-> 0]
    /\ obs = NoObs

DefaultCtor(c) ==
    /\ ~alive[c]
    /\ alive' = [alive EXCEPT ![c] = TRUE]
    /\ Commit(default_ctor(Mem, c), "void", "default_ctor", c, NoVec)

CopyCtor(c, o) ==
    /\ ~alive[c] /\ alive[o] /\ Room(size_[o])
    /\ alive' = [alive EXCEPT ![c] = TRUE]
    /\ Commit(copy_ctor(Mem, c, o), "void", "copy_ctor", c, o)

MoveCtor(c, o) ==
    /\ ~alive[c] /\ alive[o] /\ Room(size_[o])
    /\ alive' = [alive EXCEPT ![c] = TRUE]
    /\ Commit(move_ctor(Mem, c, o), "void", "move_ctor", c, o)

CopyAssign(c, o) ==
    /\ alive[c] /\ alive[o] /\ (c = o \/ Room(size_[o]))
    /\ Commit(copy_assign(Mem, c, o), "void", "copy_assign", c, o)
    /\ UNCHANGED alive

MoveAssign(c, o) ==
    /\ alive[c] /\ alive[o] /\ (c = o \/ Room(size_[o]))
    /\ Commit(move_assign(Mem, c, o), "void", "move_assign", c, o)
    /\ UNCHANGED alive

\* Scope exit of c: the destructor runs, then the storage is reclaimed.
Dtor(c) ==
    /\ alive[c]
    /\ alive' = [alive EXCEPT ![c] = FALSE]
    /\ LET m == dtor(Mem, c) IN
       Commit([m EXCEPT !.storage_[c] = [i \in Slots |-> Raw]],
              "void", "dtor", c, NoVec)

EmplaceBack(c, v) ==
    /\ alive[c] /\ (IsFull(Mem, c) \/ Room(1))
    /\ LET r == emplace_back(Mem, c, v) IN
       Commit(r.m, r.ret, "emplace_back", c, NoVec)
    /\ UNCHANGED alive

PushBackCopy(c, v) ==
    /\ alive[c] /\ (IsFull(Mem, c) \/ Room(1))
    /\ LET r == push_back_copy(Mem, c, v) IN
       Commit(r.m, r.ret, "push_back_copy", c, NoVec)
    /\ UNCHANGED alive

PushBackMove(c, v) ==
    /\ alive[c] /\ (IsFull(Mem, c) \/ Room(1))
    /\ LET r == push_back_move(Mem, c, v) IN
       Commit(r.m, r.ret, "push_back_move", c, NoVec)
    /\ UNCHANGED alive

PopBack(c) ==
    /\ alive[c]
    /\ LET r == pop_back(Mem, c) IN
       Commit(r.m, r.ret, "pop_back", c, NoVec)
    /\ UNCHANGED alive

Clear(c) ==
    /\ alive[c]
    /\ Commit(clear(Mem, c), "void", "clear", c, NoVec)
    /\ UNCHANGED alive

\* vec[pos] = v, within the precondition pos < size() of operator[].
SubscriptAssign(c, pos, v) ==
    /\ alive[c] /\ pos < size_[c]
    /\ Commit(subscript_assign(Mem, c, pos, v), "void", "subscript_assign", c, NoVec)
    /\ UNCHANGED alive

Next ==
    \/ \E c \in Vecs : DefaultCtor(c)
    \/ \E c \in Vecs, o \in Vecs : CopyCtor(c, o)
    \/ \E c \in Vecs, o \in Vecs : MoveCtor(c, o)
    \/ \E c \in Vecs, o \in Vecs : CopyAssign(c, o)
    \/ \E c \in Vecs, o \in Vecs : MoveAssign(c, o)
    \/ \E c \in Vecs : Dtor(c)
    \/ \E c \in Vecs, v \in Values : EmplaceBack(c, v)
    \/ \E c \in Vecs, v \in Values : PushBackCopy(c, v)
    \/ \E c \in Vecs, v \in Values : PushBackMove(c, v)
    \/ \E c \in Vecs : PopBack(c)
    \/ \E c \in Vecs : Clear(c)
    \/ \E c \in Vecs, pos \in Slots, v \in Values : SubscriptAssign(c, pos, v)

Spec == Init /\ [][Next]_vars

\* A const member function named name was called on c and gave r.
Observe(name, c, r) ==
    /\ alive[c]
    /\ obs' = r
    /\ op' = [name |-> name, c |-> c, o |-> NoVec]
    /\ ret' = "void"
    /\ log' = <<>>
    /\ UNCHANGED <<alive, size_, storage_, nextId, dtorCount, pushes>>

AtIf(c, pos) ==
    Observe("at_if", c, [NoObs EXCEPT !.arg = pos, !.ptr = at_if(c, pos)])

FrontIf(c) == Observe("front_if", c, [NoObs EXCEPT !.ptr = front_if(c)])

BackIf(c) == Observe("back_if", c, [NoObs EXCEPT !.ptr = back_if(c)])

\* One forward and one reverse traversal of c.
Iterate(c) ==
    Observe("iterate", c,
            [NoObs EXCEPT !.fwd = forward_walk(begin(c), end(c), MaxSteps),
                          !.rev = reverse_walk(rbegin(c), rend(c), MaxSteps)])

\* The client also reads its containers.
NextQ ==
    \/ Next
    \/ \E c \in Vecs, pos \in 0..Capacity : AtIf(c, pos)
    \/ \E c \in Vecs : FrontIf(c)
    \/ \E c \in Vecs : BackIf(c)
    \/ \E c \in Vecs : Iterate(c)

SpecQ == Init /\ [][NextQ]_vars

TypeOK ==
    /\ alive \in [Vecs -> BOOLEAN]
    /\ size_ \in [Vecs -> 0..Capacity]
    /\ nextId \in 1..(MaxObjs + 1)
    /\ ret \in StaticVectorErrorCode \cup {"void"}

\* ------------------------------------------------------------- properties
\* Slots [0, size_[c]) of c, as the state has them.
Live(c) == 0..(size_[c] - 1)

\* e is the destruction of the object obj that lived in slot i of c.
IsDtorOf(e, c, i, obj) ==
    e.ev = "dtor" /\ e.c = c /\ e.slot = i /\ e.id = obj.id /\ obj.id # 0

\* C1: starting from an empty container, the first Capacity consecutive
\* insertions (of any of the three forms) each return NoError and leave
\* size() equal to the number of insertions made; the next one returns
\* OutOfSpace and leaves size() == Capacity.
C1_FillThenOutOfSpace ==
    \A c \in Vecs :
        /\ pushes[c] \in 0..Capacity => size(c) = pushes[c]
        /\ pushes[c] = Capacity + 1 => size(c) = Capacity
        /\ (op.c = c /\ op.name \in InsertNames /\ pushes[c] \in 1..Capacity)
               => ret = "NoError"
        /\ (op.c = c /\ op.name \in InsertNames /\ pushes[c] = Capacity + 1)
               => ret = "OutOfSpace"

\* A container was filled by Capacity insertions and the next was refused.
C1_Witness ==
    \E c \in Vecs :
        /\ pushes[c] = Capacity + 1 /\ op.c = c /\ op.name \in InsertNames
        /\ ret = "OutOfSpace" /\ size(c) = Capacity

\* C2: an insertion of any form on a container with size_ == Capacity returns
\* OutOfSpace, constructs and destroys nothing, and leaves size_ and every
\* slot of every container as they were.
C2_FullInsertIsTotalFailure ==
    [][\A c \in Vecs :
          (op'.name \in InsertNames /\ op'.c = c /\ size_[c] = Capacity) =>
              /\ ret' = "OutOfSpace"
              /\ log' = <<>>
              /\ nextId' = nextId
              /\ dtorCount' = dtorCount
              /\ size_' = size_
              /\ storage_' = storage_]_vars

\* The move form of push_back was refused on a full container.
C2_Witness ==
    /\ op.name = "push_back_move" /\ ret = "OutOfSpace"
    /\ size_[op.c] = Capacity
    /\ \A i \in Slots : storage_[op.c][i].id # 0

\* C3: pop_back on a container with size_ == 0 returns Empty, runs no
\* destructor and leaves size_ == 0 and the storage untouched.
C3_PopOnEmpty ==
    [][\A c \in Vecs :
          (op'.name = "pop_back" /\ op'.c = c /\ size_[c] = 0) =>
              /\ ret' = "Empty"
              /\ log' = <<>>
              /\ dtorCount' = dtorCount
              /\ size_'[c] = 0
              /\ storage_' = storage_]_vars

\* pop_back returned Empty on a container that was emptied by being moved from.
C3_Witness ==
    /\ op.name = "pop_back" /\ ret = "Empty" /\ size_[op.c] = 0
    /\ \E i \in Slots : storage_[op.c][i].moved

\* C4: every container has 0 <= size() <= capacity(), and capacity() is the
\* template parameter Capacity whatever size() is.
C4_SizeWithinCapacity ==
    \A c \in Vecs :
        /\ 0 <= size(c)
        /\ size(c) <= capacity(c)
        /\ capacity(c) = Capacity

\* One container is full while the other is alive and empty.
C4_Witness ==
    \E c \in Vecs, d \in Vecs :
        /\ alive[c] /\ alive[d]
        /\ size(c) = Capacity /\ empty(d) /\ ~empty(c)

\* C5: between operations, slots [0, size_) of every container hold a
\* constructed, undestroyed element and slots [size_, Capacity) hold none.
C5_LiveRangeOnly ==
    \A c \in Vecs : alive[c] =>
        \A i \in Slots :
            /\ i < size_[c] => storage_[c][i].id # 0
            /\ i >= size_[c] => storage_[c][i] = Raw

\* C6: once every container has been destroyed, every element object that
\* was ever constructed has had its destructor run exactly once.
C6_ExactlyOnceDestruction ==
    (\A c \in Vecs : ~alive[c]) =>
        \A id \in Ids : id < nextId => dtorCount[id] = 1

\* C7: the destructor of a container runs ~T() once on each object in slots
\* [0, size_) and on nothing else.
C7_DtorDestroysLiveRange ==
    [][\A c \in Vecs :
          (op'.name = "dtor" /\ op'.c = c) =>
              /\ Len(log') = size_[c]
              /\ \A i \in Live(c) :
                    \E k \in 1..Len(log') :
                        IsDtorOf(log'[k], c, i, storage_[c][i])
              /\ \A id \in Ids :
                    dtorCount'[id] = dtorCount[id] +
                        (IF \E i \in Live(c) : storage_[c][i].id = id
                         THEN 1 ELSE 0)]_vars

\* A full container was destroyed while the other one holds elements.
C7_Witness ==
    /\ op.name = "dtor" /\ Len(log) = Capacity /\ Capacity > 0
    /\ \E d \in Vecs : alive[d] /\ size_[d] > 0

\* C8: copy construction or copy assignment from o gives the destination
\* o's size and, index by index, o's element values, and leaves o as it was;
\* and no operation changes a container that is not one of its operands.
C8_CopyRoundTrip ==
    [][/\ \A c \in Vecs, o \in Vecs :
             (op'.name \in {"copy_ctor", "copy_assign"} /\ op'.c = c /\ op'.o = o) =>
                 /\ size_'[c] = size_[o]
                 /\ \A i \in Live(o) :
                       /\ storage_'[c][i].id # 0
                       /\ storage_'[c][i].val = storage_[o][i].val
                 /\ size_'[o] = size_[o]
                 /\ storage_'[o] = storage_[o]
       /\ \A x \in Vecs :
             (op'.c # x /\ op'.o # x) =>
                 size_'[x] = size_[x] /\ storage_'[x] = storage_[x]]_vars

\* A container holding two different values was copied into another one.
C8_Witness ==
    /\ op.name \in {"copy_ctor", "copy_assign"} /\ op.c # op.o
    /\ size_[op.c] >= 2 /\ size_[op.o] = size_[op.c]
    /\ storage_[op.c][0].val # storage_[op.c][1].val
    /\ \A i \in Live(op.c) : storage_[op.c][i].val = storage_[op.o][i].val

\* C9: move construction from o gives the new container o's size and o's
\* element values in the same index order, and leaves o with size() == 0.
C9_MoveConstruct ==
    [][\A c \in Vecs, o \in Vecs :
          (op'.name = "move_ctor" /\ op'.c = c /\ op'.o = o) =>
              /\ size_'[c] = size_[o]
              /\ \A i \in Live(o) :
                    /\ storage_'[c][i].id # 0
                    /\ ~storage_'[c][i].moved
                    /\ storage_'[c][i].val = storage_[o][i].val
              /\ size_'[o] = 0]_vars

\* A container was move-constructed from one holding two different values.
C9_Witness ==
    /\ op.name = "move_ctor" /\ size_[op.c] >= 2 /\ size_[op.o] = 0
    /\ storage_[op.c][0].val # storage_[op.c][1].val

\* C10: move assignment from o (n elements) into a distinct c (k elements)
\* first destroys c's k elements, each exactly once, then move-constructs
\* o's n elements into slots 0..n-1 of c in index order, and leaves c with
\* size() == n and o with size() == 0.
C10_MoveAssign ==
    [][\A c \in Vecs, o \in Vecs :
          (op'.name = "move_assign" /\ op'.c = c /\ op'.o = o /\ c # o) =>
              LET k == size_[c]
                  n == size_[o]
              IN  /\ Len(log') >= k + n
                  /\ \A i \in 0..(k - 1) :
                        /\ \E j \in 1..k : IsDtorOf(log'[j], c, i, storage_[c][i])
                        /\ dtorCount'[storage_[c][i].id]
                               = dtorCount[storage_[c][i].id] + 1
                  /\ \A i \in 0..(n - 1) :
                        /\ log'[k + 1 + i].ev = "move"
                        /\ log'[k + 1 + i].c = c
                        /\ log'[k + 1 + i].slot = i
                        /\ storage_'[c][i].id = log'[k + 1 + i].id
                        /\ storage_'[c][i].val = storage_[o][i].val
                  /\ size_'[c] = n
                  /\ size_'[o] = 0]_vars

\* A non-empty container was move-assigned from another non-empty one.
C10_Witness ==
    /\ op.name = "move_assign" /\ op.c # op.o
    /\ size_[op.c] >= 1 /\ size_[op.o] = 0
    /\ \E j \in 1..Len(log) : log[j].ev = "dtor" /\ log[j].c = op.c

\* C11: clear() on a container with size_ == n runs ~T() once on each object
\* in slots [0, n) and on nothing else, and sets size() to 0; clear() on an
\* empty container (in particular a second consecutive clear()) runs no
\* destructor and leaves size() == 0.
C11_ClearDestroysAllOnce ==
    [][\A c \in Vecs :
          (op'.name = "clear" /\ op'.c = c) =>
              /\ Len(log') = size_[c]
              /\ \A i \in Live(c) :
                    \E k \in 1..Len(log') :
                        IsDtorOf(log'[k], c, i, storage_[c][i])
              /\ \A id \in Ids :
                    dtorCount'[id] = dtorCount[id] +
                        (IF \E i \in Live(c) : storage_[c][i].id = id
                         THEN 1 ELSE 0)
              /\ size_'[c] = 0
              /\ nextId' = nextId
              /\ (size_[c] = 0 => log' = <<>> /\ dtorCount' = dtorCount)
              /\ ((op.name = "clear" /\ op.c = c) =>
                     log' = <<>> /\ dtorCount' = dtorCount)]_vars

\* clear() emptied a full container.
C11_Witness ==
    /\ op.name = "clear" /\ Len(log) = Capacity /\ Capacity > 0
    /\ size_[op.c] = 0 /\ alive[op.c]
    /\ \A i \in Slots : storage_[op.c][i] = Raw

\* C14: an insertion returns NoError or OutOfSpace and nothing else, pop_back
\* returns NoError or Empty and nothing else, every other operation returns
\* no code, and no operation ever returns OutOfRange or
\* CannotDefaultConstruct.
C14_ClosedResultCodes ==
    /\ op.name \in InsertNames => ret \in {"NoError", "OutOfSpace"}
    /\ op.name = "pop_back" => ret \in {"NoError", "Empty"}
    /\ op.name \notin InsertNames \cup {"pop_back"} => ret = "void"
    /\ ret \in StaticVectorErrorCode \cup {"void"}
    /\ ret \notin {"OutOfRange", "CannotDefaultConstruct"}

\* emplace_back was refused on a full container.
C14_Witness ==
    /\ op.name = "emplace_back" /\ ret = "OutOfSpace"
    /\ size_[op.c] = Capacity

\* C15: an insertion of any form on a container with size_ == n < Capacity
\* returns NoError, constructs exactly one new object, holding the inserted
\* value, in slot n, so that operator[](n) and back_if() yield that value,
\* makes size() n + 1 and leaves slots [0, n) as they were.
C15_InsertAtTail ==
    [][\A c \in Vecs, v \in Values, n \in 0..(Capacity - 1) :
          (/\ n = size_[c]
           /\ EmplaceBack(c, v) \/ PushBackCopy(c, v) \/ PushBackMove(c, v)) =>
              /\ ret' = "NoError"
              /\ size_'[c] = n + 1
              /\ nextId' = nextId + 1
              /\ Len(log') = 1 /\ log'[1].c = c /\ log'[1].slot = n
              /\ storage_'[c][n] = [id |-> nextId, val |-> v, moved |-> FALSE]
              /\ Deref(subscript(c, n))'.val = v
              /\ back_if(c)' = Ptr(c, n)
              /\ Deref(back_if(c))'.val = v
              /\ \A i \in 0..(n - 1) : storage_'[c][i] = storage_[c][i]
              /\ dtorCount' = dtorCount]_vars

\* The copy form of push_back appended a second, different value.
C15_Witness ==
    /\ op.name = "push_back_copy" /\ ret = "NoError"
    /\ size_[op.c] = 2
    /\ Deref(back_if(op.c)).val # Deref(front_if(op.c)).val
    /\ Len(log) = 1 /\ log[1].slot = 1

\* C16: pop_back on a container with size_ == n > 0 returns NoError, runs
\* ~T() on the object in slot n - 1 and on no other, makes size() n - 1 and
\* leaves slots [0, n - 1) as they were; with size_ == 0 it returns Empty.
\* Hence n successive calls from size n return NoError and the next Empty.
C16_PopRemovesTail ==
    [][\A c \in Vecs :
          (op'.name = "pop_back" /\ op'.c = c) =>
              /\ \A n \in 1..Capacity :
                    n = size_[c] =>
                        /\ ret' = "NoError"
                        /\ Len(log') = 1
                        /\ IsDtorOf(log'[1], c, n - 1, storage_[c][n - 1])
                        /\ dtorCount' = [dtorCount EXCEPT
                                            ![storage_[c][n - 1].id] = @ + 1]
                        /\ size_'[c] = n - 1
                        /\ storage_'[c][n - 1] = Raw
                        /\ \A i \in 0..(n - 2) : storage_'[c][i] = storage_[c][i]
              /\ size_[c] = 0 => ret' = "Empty" /\ size_'[c] = 0
              /\ nextId' = nextId
              /\ \A x \in Vecs \ {c} :
                    size_'[x] = size_[x] /\ storage_'[x] = storage_[x]]_vars

\* pop_back removed the second element of a container and kept the first.
C16_Witness ==
    /\ op.name = "pop_back" /\ ret = "NoError"
    /\ size_[op.c] = 1 /\ storage_[op.c][0].id # 0
    /\ Len(log) = 1 /\ log[1].slot = 1 /\ dtorCount[log[1].id] = 1

\* C17 (as claimed): within a successful pop_back the element is destroyed
\* before size_ is decremented: when ~T() runs on slot s, size_ still
\* includes s (size_ == s + 1).
C17_DestroyBeforeDecrement ==
    (op.name = "pop_back" /\ ret = "NoError") =>
        \A k \in 1..Len(log) :
            log[k].ev = "dtor" => log[k].count = log[k].slot + 1

\* C17 (amended): within a successful pop_back size_ is decremented first
\* and the element destroyed afterwards: ~T() runs exactly once, on slot
\* s == size_, at a moment when size_ already excludes s and has its final
\* value.
C17_DecrementBeforeDestroy ==
    (op.name = "pop_back" /\ ret = "NoError") =>
        /\ Len(log) = 1
        /\ log[1].ev = "dtor" /\ log[1].c = op.c /\ log[1].id # 0
        /\ log[1].count = log[1].slot
        /\ log[1].count = size_[op.c]

\* pop_back succeeded on a full container.
C17_Witness ==
    /\ op.name = "pop_back" /\ ret = "NoError"
    /\ Len(log) = 1 /\ log[1].ev = "dtor"
    /\ log[1].slot = Capacity - 1 /\ size_[op.c] = Capacity - 1

\* C18: copy-assigning or move-assigning a container to itself leaves its
\* size and every slot unchanged and constructs and destroys nothing.
C18_SelfAssignNoOp ==
    [][\A c \in Vecs :
          (/\ op'.name \in {"copy_assign", "move_assign"}
           /\ op'.c = c /\ op'.o = c) =>
              /\ size_' = size_
              /\ storage_' = storage_
              /\ log' = <<>>
              /\ nextId' = nextId
              /\ dtorCount' = dtorCount
              /\ alive' = alive]_vars

\* A full container was copy-assigned to itself.
C18_Witness ==
    /\ op.name = "copy_assign" /\ op.c = op.o
    /\ size_[op.c] = Capacity /\ log = <<>>
    /\ \A i \in Slots : storage_[op.c][i].id # 0 /\ ~storage_[op.c][i].moved

\* C19: no element is ever constructed in a slot that still holds a
\* constructed, undestroyed object.
C19_NoConstructionOverLiveObject ==
    \A k \in 1..Len(log) :
        log[k].ev \in {"copy", "move", "emplace"} => log[k].over = 0

\* C12: at_if(k) gives nullptr for every k >= size() and a pointer to the
\* live element in slot k for every k < size(); front_if() and back_if() give
\* nullptr exactly when size() == 0 and otherwise point to the elements in
\* slots 0 and size() - 1; none of the three changes any container or
\* constructs or destroys anything.
C12_CheckedAccess ==
    [][\A c \in Vecs :
          /\ (op'.name = "at_if" /\ op'.c = c) =>
                 /\ obs'.arg >= size_[c] => obs'.ptr = nullptr
                 /\ obs'.arg < size_[c] =>
                        /\ obs'.ptr = Ptr(c, obs'.arg)
                        /\ Deref(obs'.ptr).id # 0
          /\ (op'.name = "front_if" /\ op'.c = c) =>
                 /\ obs'.ptr = nullptr <=> size_[c] = 0
                 /\ size_[c] > 0 =>
                        obs'.ptr = Ptr(c, 0) /\ Deref(obs'.ptr).id # 0
          /\ (op'.name = "back_if" /\ op'.c = c) =>
                 /\ obs'.ptr = nullptr <=> size_[c] = 0
                 /\ size_[c] > 0 =>
                        /\ obs'.ptr = Ptr(c, size_[c] - 1)
                        /\ Deref(obs'.ptr).id # 0
          /\ (op'.name \in {"at_if", "front_if", "back_if"} /\ op'.c = c) =>
                 /\ size_' = size_ /\ storage_' = storage_ /\ alive' = alive
                 /\ nextId' = nextId /\ dtorCount' = dtorCount
                 /\ log' = <<>>]_vars

\* at_if(size()) gave nullptr on a container that holds elements.
C12_Witness ==
    /\ op.name = "at_if" /\ obs.arg = size_[op.c] /\ obs.ptr = nullptr
    /\ size_[op.c] >= 1 /\ at_if(op.c, size_[op.c] - 1) = back_if(op.c)

\* C13: a traversal from begin() reaches end() after exactly size()
\* increments and visits slots 0, 1, ..., size() - 1 in that order; one from
\* rbegin() reaches rend() after exactly size() increments and visits slots
\* size() - 1, ..., 0; every visited slot holds a live element; begin() ==
\* end() and rbegin() == rend() exactly on an empty container.
C13_IterationCoversLiveRange ==
    op.name = "iterate" =>
        LET c == op.c
            n == size_[c]
        IN  /\ Len(obs.fwd) = n
            /\ Len(obs.rev) = n
            /\ \A i \in 1..n : obs.fwd[i] = i - 1
            /\ \A i \in 1..n : obs.rev[i] = n - i
            /\ (begin(c) = end(c)) <=> n = 0
            /\ (rbegin(c) = rend(c)) <=> n = 0
            /\ \A i \in 1..n : storage_[c][obs.fwd[i]].id # 0

\* A container holding two elements was traversed both ways.
C13_Witness ==
    /\ op.name = "iterate" /\ size_[op.c] = 2
    /\ obs.fwd = <<0, 1>> /\ obs.rev = <<1, 0>>
    /\ Deref(begin(op.c)).val # Deref(reverse_deref(rbegin(op.c))).val

====
